---- MODULE Spec2Model ----
(***************************************************************************)
(* Model of the NEST flight CLI: cli/main.py (parse_args, main),           *)
(* config/__init__.py (load_settings_from_env) and core/runner.py (run).   *)
(*                                                                         *)
(* One execution is either main(argv), which parses the command line,      *)
(* resolves the Settings and calls run(), or a direct call run(settings).  *)
(* Every call into a collaborator (constructors, Thread.start, the         *)
(* command loop, the close operations, the snapshot write) either returns  *)
(* or raises an exception derived from Exception; which one happens is     *)
(* chosen by the environment.  The detector thread is a concurrent unit    *)
(* that may finish at any moment once started.                             *)
(*                                                                         *)
(* Command lines are modelled with their positional words contiguous and   *)
(* the option flags given apart from them.                                 *)
(***************************************************************************)
EXTENDS Integers, Sequences, FiniteSets, TLC

\* Longest list of positional words after the sub-command.
MaxPositionals == 2

\* Python's None for string-valued slots.
None == "None"

\* Optional[List[str]]
NoList == [some |-> FALSE, val |-> <<>>]
SomeList(l) == [some |-> TRUE, val |-> l]

Modes == {"udp", "radio", "swarm"}

\* Words that can appear as positionals on the modelled command lines.
Words == {"7", "Vision", "control", "waypoint", "waypoints"}

\* str.lower() on the modelled words.
Lower(w) == IF w = "Vision" THEN "vision" ELSE w

EXTRA_TOKENS == {"vision", "control", "waypoint", "waypoints"}

SeqsUpTo(S, n) == UNION {[1..k -> S] : k \in 0..n}

Range(s) == {s[i] : i \in 1..Len(s)}

IfThen(c, s) == IF c THEN s ELSE <<>>

RECURSIVE SelectExtras(_)
\* [e for e in extras if e.lower() in _EXTRA_TOKENS]
SelectExtras(extras) ==
  IF extras = <<>> THEN <<>>
  ELSE IF Lower(Head(extras)) \in EXTRA_TOKENS
       THEN <<Head(extras)>> \o SelectExtras(Tail(extras))
       ELSE SelectExtras(Tail(extras))

\* _parse_extras: booleans from the trailing tokens; raises ValueError when
\* the tokens name control without vision.
parse_extras(extras) ==
  LET s == {Lower(e) : e \in Range(extras)}
      vision == "vision" \in s
      control == "control" \in s
      waypoints == ("waypoint" \in s) \/ ("waypoints" \in s)
  IN [raised |-> control /\ ~vision,
      vision |-> vision, control |-> control, waypoints |-> waypoints]

\* argparse: the sub-parser's positionals.  udp: extras*; radio: channel
\* extras*; swarm: channels+ extras* (channels takes every positional).
ArgparseAccepts(a) == a.mode = "udp" \/ Len(a.positionals) >= 1

Namespace(a) ==
  [mode |-> a.mode, dry_run |-> a.dry_run,
   vision |-> a.vision, control |-> a.control, waypoints |-> a.waypoints,
   channel |-> IF a.mode = "radio" THEN Head(a.positionals) ELSE None,
   channels |-> IF a.mode = "swarm" THEN SomeList(a.positionals) ELSE NoList,
   extras |-> IF a.mode = "udp" THEN a.positionals
              ELSE IF a.mode = "radio" THEN Tail(a.positionals)
              ELSE <<>>]

NoArgs == [mode |-> None, channel |-> None, channels |-> NoList,
           vision |-> FALSE, control |-> FALSE, waypoints |-> FALSE,
           dry_run |-> FALSE]

\* Variant: the final check on the merged toggles is missing.
MergedCheckRejects_Off(vision, control) == FALSE

\* The final check of parse_args on the merged toggles.
MergedCheckRejects(vision, control) == control /\ ~vision

\* parse_args: status is "ok", or the exception that leaves parse_args.
parse_args(a) ==
  IF ~ArgparseAccepts(a) THEN [status |-> "SystemExit", args |-> NoArgs]
  ELSE
    LET ns == Namespace(a)
        token_extras == SelectExtras(ns.extras)
        tok == IF token_extras # <<>> THEN parse_extras(token_extras)
               ELSE [raised |-> FALSE, vision |-> FALSE, control |-> FALSE,
                     waypoints |-> FALSE]
        vision == ns.vision \/ tok.vision
        control == ns.control \/ tok.control
        waypoints == ns.waypoints \/ tok.waypoints
    IN IF tok.raised THEN [status |-> "ValueError", args |-> NoArgs]
       ELSE IF MergedCheckRejects(vision, control)
            THEN [status |-> "SystemExit", args |-> NoArgs]
       ELSE [status |-> "ok",
             args |-> [mode |-> ns.mode,
                       channel |-> ns.channel,
                       channels |-> ns.channels,
                       vision |-> vision, control |-> control,
                       waypoints |-> waypoints, dry_run |-> ns.dry_run]]

\* Optional[int]
NoInt == [some |-> FALSE, val |-> 0]
SomeInt(n) == [some |-> TRUE, val |-> n]

\* _project_root(), and the directories derived from it when the NEST_*_DIR
\* variables are unset.  A path is held as its text.
ProjectRoot == "/nest"
DefaultRun == [project_root |-> ProjectRoot, logs_dir |-> "/nest/logs",
               data_dir |-> "/nest/data", cache_dir |-> "/nest/cache",
               log_level |-> "INFO"]

\* The vision parameters when the NEST_CAMERA_*, NEST_ARUCO_DICT,
\* NEST_MARKER_SIZE_M and NEST_VISION_SHOW_WINDOW variables are unset.  A
\* float is held as its decimal text.
VisionSettings(enabled, control_enabled) ==
  [enabled |-> enabled, control_enabled |-> control_enabled,
   camera_index |-> NoInt, camera_url |-> None,
   aruco_dict_name |-> "DICT_4X4_50", marker_size_m |-> "0.04",
   show_window |-> TRUE]

\* uri_by_channel: RADIO_CHANNEL_7/8/9, stripped; 8 and 9 are unset.
RadioSettings(e) ==
  [uri_by_channel |-> ("7" :> e.RADIO_CHANNEL_7) @@ ("8" :> "") @@ ("9" :> "")]

NoSettings == [mode |-> None, dry_run |-> FALSE,
               run |-> DefaultRun,
               radio |-> [uri_by_channel |-> ("7" :> "") @@ ("8" :> "")
                                             @@ ("9" :> "")],
               swarm |-> [enabled |-> FALSE, channels |-> NoList],
               vision |-> VisionSettings(FALSE, FALSE),
               features |-> [waypoints |-> FALSE],
               uri |-> None]

\* uri.strip() or None, on the modelled environment values ("" or a URI).
StripOrNone(s) == IF s = "" THEN None ELSE s

\* radio.uri_by_channel.get(str(channel), ""): only channel 7 is looked at
\* in the modelled environment, channels 8 and 9 are unset.
UriByChannel(e, channel) ==
  IF channel \in DOMAIN RadioSettings(e).uri_by_channel
  THEN RadioSettings(e).uri_by_channel[channel]
  ELSE ""

\* load_settings_from_env: status is "ok" or the exception raised.
load_settings_from_env(a, e) ==
  LET uri == IF a.mode = "radio" THEN StripOrNone(UriByChannel(e, a.channel))
             ELSE IF a.mode = "udp" THEN StripOrNone(e.CF_URI_UDP)
             ELSE None
      missing == IF a.mode = "radio"
                 THEN a.channel \in {"", None} \/ (~a.dry_run /\ uri = None)
                 ELSE IF a.mode = "udp" THEN ~a.dry_run /\ uri = None
                 ELSE FALSE
  IN IF missing THEN [status |-> "ValueError", settings |-> NoSettings]
     ELSE [status |-> "ok",
           settings |-> [mode |-> a.mode, dry_run |-> a.dry_run,
                         run |-> DefaultRun,
                         radio |-> RadioSettings(e),
                         swarm |-> [enabled |-> (a.mode = "swarm"),
                                    channels |-> IF a.mode = "swarm"
                                                 THEN a.channels ELSE NoList],
                         vision |-> VisionSettings(a.vision, a.control),
                         features |-> [waypoints |-> a.waypoints],
                         uri |-> uri]]

----------------------------------------------------------------------------
\* Python values, tagged with their type, as _safe_asdict and json see them.

PyNone == [tag |-> "NoneType"]
PyStr(x) == [tag |-> "str", s |-> x]
PyBool(x) == [tag |-> "bool", b |-> x]
PyInt(x) == [tag |-> "int", n |-> x]
PyFloat(x) == [tag |-> "float", r |-> x]
PyPath(x) == [tag |-> "Path", text |-> x]
PyList(x) == [tag |-> "list", elems |-> x]
PyTuple(x) == [tag |-> "tuple", elems |-> x]
PyDict(x) == [tag |-> "dict", items |-> x]
PyDataclass(x) == [tag |-> "dataclass", fields |-> x]

OptStr(x) == IF x = None THEN PyNone ELSE PyStr(x)
OptInt(x) == IF x.some THEN PyInt(x.val) ELSE PyNone
OptStrList(x) ==
  IF x.some THEN PyList([i \in 1..Len(x.val) |-> PyStr(x.val[i])])
  ELSE PyNone

\* The Settings object of config/settings.py for the record st: the field
\* types are those of the dataclass declarations.
SettingsObject(st) ==
  PyDataclass(
    [mode |-> PyStr(st.mode),
     dry_run |-> PyBool(st.dry_run),
     run |-> PyDataclass(
       [project_root |-> PyPath(st.run.project_root),
        logs_dir |-> PyPath(st.run.logs_dir),
        data_dir |-> PyPath(st.run.data_dir),
        cache_dir |-> PyPath(st.run.cache_dir),
        log_level |-> PyStr(st.run.log_level)]),
     radio |-> PyDataclass(
       [uri_by_channel |->
          PyDict([k \in DOMAIN st.radio.uri_by_channel |->
                    PyStr(st.radio.uri_by_channel[k])])]),
     swarm |-> PyDataclass(
       [enabled |-> PyBool(st.swarm.enabled),
        channels |-> OptStrList(st.swarm.channels)]),
     vision |-> PyDataclass(
       [enabled |-> PyBool(st.vision.enabled),
        control_enabled |-> PyBool(st.vision.control_enabled),
        camera_index |-> OptInt(st.vision.camera_index),
        camera_url |-> OptStr(st.vision.camera_url),
        aruco_dict_name |-> PyStr(st.vision.aruco_dict_name),
        marker_size_m |-> PyFloat(st.vision.marker_size_m),
        show_window |-> PyBool(st.vision.show_window)]),
     features |-> PyDataclass([waypoints |-> PyBool(st.features.waypoints)]),
     uri |-> OptStr(st.uri)])

RECURSIVE asdict(_)
\* dataclasses.asdict: dataclasses become dicts, recursively through lists,
\* tuples and dicts; every other value is copied.
asdict(obj) ==
  IF obj.tag = "dataclass"
  THEN PyDict([k \in DOMAIN obj.fields |-> asdict(obj.fields[k])])
  ELSE IF obj.tag = "dict"
  THEN PyDict([k \in DOMAIN obj.items |-> asdict(obj.items[k])])
  ELSE IF obj.tag \in {"list", "tuple"}
  THEN [obj EXCEPT !.elems = [i \in DOMAIN obj.elems |-> asdict(obj.elems[i])]]
  ELSE obj

\* Variant: the Path branch of _safe_asdict is missing.
str_of_path_Missing(obj) == obj

\* str(obj) for a Path.
str_of_path(obj) == PyStr(obj.text)

RECURSIVE safe_asdict(_)
\* _safe_asdict
safe_asdict(obj) ==
  IF obj.tag = "dataclass"
  THEN LET d == asdict(obj)
       IN PyDict([k \in DOMAIN d.items |-> safe_asdict(d.items[k])])
  ELSE IF obj.tag = "dict"
  THEN PyDict([k \in DOMAIN obj.items |-> safe_asdict(obj.items[k])])
  ELSE IF obj.tag \in {"list", "tuple"}
  THEN PyList([i \in DOMAIN obj.elems |-> safe_asdict(obj.elems[i])])
  ELSE IF obj.tag = "Path"
  THEN str_of_path(obj)
  ELSE obj

RECURSIVE Serializable(_)
\* json.dumps accepts dict, list, tuple, str, int, float, bool and None and
\* raises TypeError on anything else.
Serializable(v) ==
  IF v.tag = "dict" THEN \A k \in DOMAIN v.items : Serializable(v.items[k])
  ELSE IF v.tag \in {"list", "tuple"}
  THEN \A i \in DOMAIN v.elems : Serializable(v.elems[i])
  ELSE v.tag \in {"str", "int", "float", "bool", "NoneType"}

RECURSIVE json_dumps(_)
\* json.dumps of a serializable value: the JSON document.
json_dumps(v) ==
  IF v.tag = "dict"
  THEN [j |-> "object",
        members |-> [k \in DOMAIN v.items |-> json_dumps(v.items[k])]]
  ELSE IF v.tag \in {"list", "tuple"}
  THEN [j |-> "array",
        elems |-> [i \in DOMAIN v.elems |-> json_dumps(v.elems[i])]]
  ELSE IF v.tag = "str" THEN [j |-> "string", s |-> v.s]
  ELSE IF v.tag = "bool" THEN [j |-> IF v.b THEN "true" ELSE "false"]
  ELSE IF v.tag = "int" THEN [j |-> "number", n |-> v.n]
  ELSE IF v.tag = "float" THEN [j |-> "number", r |-> v.r]
  ELSE [j |-> "null"]

RECURSIVE json_loads(_)
\* json.loads: the Python value a JSON document parses to.
json_loads(d) ==
  IF d.j = "object"
  THEN PyDict([k \in DOMAIN d.members |-> json_loads(d.members[k])])
  ELSE IF d.j = "array"
  THEN PyList([i \in DOMAIN d.elems |-> json_loads(d.elems[i])])
  ELSE IF d.j = "string" THEN PyStr(d.s)
  ELSE IF d.j = "true" THEN PyBool(TRUE)
  ELSE IF d.j = "false" THEN PyBool(FALSE)
  ELSE IF d.j = "number"
  THEN IF "n" \in DOMAIN d THEN PyInt(d.n) ELSE PyFloat(d.r)
  ELSE PyNone

\* The file settings.json: absent, empty (opened for writing, nothing
\* written), or holding a JSON document.
NoFile == [j |-> "absent"]
EmptyFile == [j |-> "empty"]
StaleSnapshot == json_dumps(PyDict([mode |-> PyStr("udp"),
                                    dry_run |-> PyBool(TRUE)]))

VARIABLES
  snapshot_file,    \* content of settings.json in the logs directory
  entry,            \* the call that started the execution: "main", "run",
                    \* or "resolver" (load_settings_from_env called alone)
  argv,             \* the command line given to main
  env,              \* the environment variables read by the resolver
  args,             \* CliArgs returned by parse_args
  settings,         \* the Settings given to run()
  pc,               \* position of the primary thread
  drone, drone_logs, swarm, detector,   \* run()'s handles: None or present
  detector_thread,  \* None, "new" (never started), "alive", "dead"
  cmd,              \* the loop controller: None or present
  ret,              \* <<>> until run() executes a return statement
  calls,            \* collaborator operations invoked, in order
  logged,           \* log records written by run(), in order
  raised            \* the operations that raised

vars == <<snapshot_file, entry, argv, env, args, settings, pc, drone, drone_logs, swarm,
          detector, detector_thread, cmd, ret, calls, logged, raised>>

handles == <<drone, drone_logs, swarm, detector, detector_thread, cmd>>
mainVars == <<entry, argv, env, args>>

Present == "present"

NoArgv == [mode |-> None, dry_run |-> FALSE, vision |-> FALSE,
           control |-> FALSE, waypoints |-> FALSE, positionals |-> <<>>]

Argvs == [mode : Modes, dry_run : BOOLEAN, vision : BOOLEAN,
          control : BOOLEAN, waypoints : BOOLEAN,
          positionals : SeqsUpTo(Words, MaxPositionals)]

Envs == [CF_URI_UDP : {"", "udp://192.168.43.42"},
         RADIO_CHANNEL_7 : {"", "radio://0/7/2M/E7E7E7E707"}]

NoEnv == [CF_URI_UDP |-> "", RADIO_CHANNEL_7 |-> ""]

\* Settings a caller can hand to run() directly.
DirectSettings ==
  {[mode |-> m, dry_run |-> d,
    swarm |-> [enabled |-> (m = "swarm"),
               channels |-> IF m = "swarm" THEN SomeList(<<"7">>) ELSE NoList],
    run |-> [project_root |-> "/opt/nest", logs_dir |-> "/var/log/nest",
             data_dir |-> "/opt/nest/data", cache_dir |-> "/opt/nest/cache",
             log_level |-> "DEBUG"],
    radio |-> [uri_by_channel |-> ("7" :> "radio://0/7/2M/E7E7E7E707")
                                  @@ ("8" :> "") @@ ("9" :> "")],
    vision |-> [enabled |-> v, control_enabled |-> c,
                camera_index |-> SomeInt(0), camera_url |-> "rtsp://cam/1",
                aruco_dict_name |-> "DICT_5X5_100", marker_size_m |-> "0.1",
                show_window |-> FALSE],
    features |-> [waypoints |-> w],
    uri |-> IF m = "swarm" THEN None ELSE "radio://0/7/2M/E7E7E7E707"] :
   m \in Modes, d \in BOOLEAN, v \in BOOLEAN, c \in BOOLEAN, w \in BOOLEAN}

\* Keyword arguments a caller can hand to load_settings_from_env directly
\* (channel: Optional[str], channels: Optional[list[str]]).
DirectArgs ==
  [mode : Modes, dry_run : BOOLEAN,
   channel : {None, "7", "8"},
   channels : {NoList, SomeList(<<>>), SomeList(<<"7", "8">>)},
   vision : BOOLEAN, control : {FALSE}, waypoints : {FALSE}]

Init ==
  /\ entry \in {"main", "run", "resolver"}
  /\ \/ /\ entry = "main"
        /\ snapshot_file = NoFile
        /\ argv \in Argvs
        /\ env \in Envs
        /\ args = NoArgs
        /\ settings = NoSettings
        /\ pc = "parse_args"
     \/ /\ entry = "run"
        /\ snapshot_file \in {NoFile, StaleSnapshot}
        /\ argv = NoArgv
        /\ env = NoEnv
        /\ args = NoArgs
        /\ settings \in DirectSettings
        /\ pc = "setup_logging"
     \/ /\ entry = "resolver"
        /\ snapshot_file = NoFile
        /\ argv = NoArgv
        /\ env \in Envs
        /\ args \in DirectArgs
        /\ settings = NoSettings
        /\ pc = "resolve"
  /\ drone = None /\ drone_logs = None /\ swarm = None /\ detector = None
  /\ detector_thread = None /\ cmd = None
  /\ ret = <<>>
  /\ calls = <<>> /\ logged = <<>> /\ raised = {}

----------------------------------------------------------------------------
\* main()

\* args = parse_args(argv)
Main_ParseArgs ==
  /\ pc = "parse_args"
  /\ LET r == parse_args(argv)
     IN IF r.status = "ok"
        THEN /\ args' = r.args
             /\ pc' = "load_settings"
        ELSE /\ args' = args
             /\ pc' = "parse_error"
  /\ UNCHANGED <<snapshot_file, entry, argv, env, settings, handles, ret, calls, logged,
                 raised>>

\* settings = load_settings_from_env(...)
Main_LoadSettings ==
  /\ pc = "load_settings"
  /\ LET r == load_settings_from_env(args, env)
     IN IF r.status = "ok"
        THEN /\ settings' = r.settings
             /\ pc' = "setup_logging"
        ELSE /\ settings' = settings
             /\ pc' = "config_error"
  /\ UNCHANGED <<snapshot_file, mainVars, handles, ret, calls, logged, raised>>

\* load_settings_from_env(...) called on its own.
Resolver_Call ==
  /\ pc = "resolve"
  /\ LET r == load_settings_from_env(args, env)
     IN IF r.status = "ok"
        THEN /\ settings' = r.settings
             /\ pc' = "resolved"
        ELSE /\ settings' = settings
             /\ pc' = "config_error"
  /\ UNCHANGED <<snapshot_file, mainVars, handles, ret, calls, logged, raised>>

----------------------------------------------------------------------------
\* run(settings)

Run_SetupLogging ==
  /\ pc = "setup_logging"
  /\ pc' = "snapshot"
  /\ UNCHANGED <<snapshot_file, mainVars, settings, handles, ret, calls, logged, raised>>

\* Outcomes of _write_settings_snapshot: json.dumps raises TypeError on a
\* value it cannot serialize; otherwise the environment decides between
\* success, a failing mkdir (file untouched) and a failing write_text (file
\* opened for writing, then the write fails).
SnapshotOutcomes(st) ==
  IF Serializable(safe_asdict(SettingsObject(st)))
  THEN {"ok", "mkdir_failed", "write_failed"}
  ELSE {"TypeError"}

\* The file after the call.
SnapshotFileAfter(st, file, outcome) ==
  IF outcome = "ok" THEN json_dumps(safe_asdict(SettingsObject(st)))
  ELSE IF outcome = "write_failed" THEN EmptyFile
  ELSE file

\* Variant: the snapshot is written only for runs that are not dry.
Run_WriteSnapshot_NotOnDryRun ==
  /\ pc = "snapshot"
  /\ IF settings.dry_run
     THEN /\ pc' = "dry_check"
          /\ UNCHANGED <<calls, raised, snapshot_file>>
     ELSE /\ calls' = Append(calls, "write_snapshot")
          /\ \E outcome \in SnapshotOutcomes(settings) :
               /\ snapshot_file' =
                    SnapshotFileAfter(settings, snapshot_file, outcome)
               /\ IF outcome = "ok"
                  THEN /\ pc' = "dry_check"
                       /\ raised' = raised
                  ELSE /\ pc' = "run_raised"
                       /\ raised' = raised \cup {"write_snapshot"}
  /\ UNCHANGED <<mainVars, settings, handles, ret, logged>>

\* _write_settings_snapshot(settings, settings.run.logs_dir): outside the try.
Run_WriteSnapshot ==
  /\ pc = "snapshot"
  /\ calls' = Append(calls, "write_snapshot")
  /\ \E outcome \in SnapshotOutcomes(settings) :
       /\ snapshot_file' = SnapshotFileAfter(settings, snapshot_file, outcome)
       /\ IF outcome = "ok"
          THEN /\ pc' = "dry_check"
               /\ raised' = raised
          ELSE /\ pc' = "run_raised"
               /\ raised' = raised \cup {"write_snapshot"}
  /\ UNCHANGED <<mainVars, settings, handles, ret, logged>>

Run_DryRunCheck_Ignored ==
  /\ pc = "dry_check"
  /\ pc' = "init_drone"
  /\ UNCHANGED <<snapshot_file, mainVars, settings, handles, ret, calls, logged, raised>>

Run_DryRunCheck ==
  /\ pc = "dry_check"
  /\ IF settings.dry_run
     THEN /\ logged' = Append(logged, "Dry-run enabled")
          /\ ret' = <<0>>
          /\ pc' = "done"
     ELSE /\ logged' = logged
          /\ ret' = ret
          /\ pc' = "init_drone"
  /\ UNCHANGED <<snapshot_file, mainVars, settings, handles, calls, raised>>

Init_DroneConnection ==
  /\ pc = "init_drone"
  /\ logged' = Append(logged, "Initializing drone connection")
  /\ calls' = Append(calls, "DroneConnection")
  /\ \E ok \in BOOLEAN :
       IF ok THEN /\ drone' = Present
                  /\ pc' = "init_logs"
                  /\ raised' = raised
             ELSE /\ drone' = drone
                  /\ pc' = "except"
                  /\ raised' = raised \cup {"DroneConnection"}
  /\ UNCHANGED <<snapshot_file, mainVars, settings, drone_logs, swarm, detector,
                 detector_thread, cmd, ret>>

Init_DroneLogs ==
  /\ pc = "init_logs"
  /\ logged' = Append(logged, "Initializing telemetry logging")
  /\ calls' = Append(calls, "DroneLogs")
  /\ \E ok \in BOOLEAN :
       IF ok THEN /\ drone_logs' = Present
                  /\ pc' = "init_swarm"
                  /\ raised' = raised
             ELSE /\ drone_logs' = drone_logs
                  /\ pc' = "except"
                  /\ raised' = raised \cup {"DroneLogs"}
  /\ UNCHANGED <<snapshot_file, mainVars, settings, drone, swarm, detector,
                 detector_thread, cmd, ret>>

\* Variant: the swarm slot is filled before the constructor has returned.
Init_SwarmCommand_AssignsOnFailure ==
  /\ pc = "init_swarm"
  /\ IF settings.mode = "swarm"
     THEN /\ logged' = Append(logged, "Initializing swarm controller")
          /\ calls' = Append(calls, "SwarmCommand")
          /\ swarm' = Present
          /\ \E ok \in BOOLEAN :
               IF ok THEN /\ pc' = "init_detector"
                          /\ raised' = raised
                     ELSE /\ pc' = "except"
                          /\ raised' = raised \cup {"SwarmCommand"}
     ELSE /\ pc' = "init_detector"
          /\ UNCHANGED <<logged, calls, swarm, raised>>
  /\ UNCHANGED <<snapshot_file, mainVars, settings, drone, drone_logs, detector,
                 detector_thread, cmd, ret>>

Init_SwarmCommand ==
  /\ pc = "init_swarm"
  /\ IF settings.mode = "swarm"
     THEN /\ logged' = Append(logged, "Initializing swarm controller")
          /\ calls' = Append(calls, "SwarmCommand")
          /\ \E ok \in BOOLEAN :
               IF ok THEN /\ swarm' = Present
                          /\ pc' = "init_detector"
                          /\ raised' = raised
                     ELSE /\ swarm' = swarm
                          /\ pc' = "except"
                          /\ raised' = raised \cup {"SwarmCommand"}
     ELSE /\ pc' = "init_detector"
          /\ UNCHANGED <<logged, calls, swarm, raised>>
  /\ UNCHANGED <<snapshot_file, mainVars, settings, drone, drone_logs, detector,
                 detector_thread, cmd, ret>>

\* Variant: the detector is constructed whether or not vision is enabled.
Init_DetectorRT_Ungated ==
  /\ pc = "init_detector"
  /\ logged' = Append(logged, "Starting vision detector thread")
  /\ calls' = Append(calls, "DetectorRT")
  /\ \E ok \in BOOLEAN :
       IF ok THEN /\ detector' = Present
                  /\ pc' = "start_thread"
                  /\ raised' = raised
             ELSE /\ detector' = detector
                  /\ pc' = "except"
                  /\ raised' = raised \cup {"DetectorRT"}
  /\ UNCHANGED <<snapshot_file, mainVars, settings, drone, drone_logs, swarm,
                 detector_thread, cmd, ret>>

Init_DetectorRT ==
  /\ pc = "init_detector"
  /\ IF settings.vision.enabled
     THEN /\ logged' = Append(logged, "Starting vision detector thread")
          /\ calls' = Append(calls, "DetectorRT")
          /\ \E ok \in BOOLEAN :
               IF ok THEN /\ detector' = Present
                          /\ pc' = "start_thread"
                          /\ raised' = raised
                     ELSE /\ detector' = detector
                          /\ pc' = "except"
                          /\ raised' = raised \cup {"DetectorRT"}
     ELSE /\ pc' = "init_cmd"
          /\ UNCHANGED <<logged, calls, detector, raised>>
  /\ UNCHANGED <<snapshot_file, mainVars, settings, drone, drone_logs, swarm,
                 detector_thread, cmd, ret>>

\* Variant: a failure to start the thread is swallowed and initialization
\* goes on.
Init_ThreadStart_FailureIgnored ==
  /\ pc = "start_thread"
  /\ calls' = Append(calls, "Thread.start")
  /\ pc' = "init_cmd"
  /\ \E ok \in BOOLEAN :
       IF ok THEN /\ detector_thread' = "alive"
                  /\ raised' = raised
             ELSE /\ detector_thread' = "new"
                  /\ raised' = raised \cup {"Thread.start"}
  /\ UNCHANGED <<snapshot_file, mainVars, settings, drone, drone_logs, swarm, detector,
                 cmd, ret, logged>>

\* detector_thread = Thread(...); detector_thread.start()
Init_ThreadStart ==
  /\ pc = "start_thread"
  /\ calls' = Append(calls, "Thread.start")
  /\ \E ok \in BOOLEAN :
       IF ok THEN /\ detector_thread' = "alive"
                  /\ pc' = "init_cmd"
                  /\ raised' = raised
             ELSE /\ detector_thread' = "new"
                  /\ pc' = "except"
                  /\ raised' = raised \cup {"Thread.start"}
  /\ UNCHANGED <<snapshot_file, mainVars, settings, drone, drone_logs, swarm, detector,
                 cmd, ret, logged>>

Init_Command ==
  /\ pc = "init_cmd"
  /\ logged' = Append(logged, "Launching command/UI loop")
  /\ calls' = Append(calls, "Command")
  /\ \E ok \in BOOLEAN :
       IF ok THEN /\ cmd' = Present
                  /\ pc' = "set_detector"
                  /\ raised' = raised
             ELSE /\ cmd' = cmd
                  /\ pc' = "except"
                  /\ raised' = raised \cup {"Command"}
  /\ UNCHANGED <<snapshot_file, mainVars, settings, drone, drone_logs, swarm, detector,
                 detector_thread, ret>>

Init_SetDetector ==
  /\ pc = "set_detector"
  /\ IF detector # None
     THEN /\ calls' = Append(calls, "Command.set_detector")
          /\ \E ok \in BOOLEAN :
               IF ok THEN /\ pc' = "cmd_run"
                          /\ raised' = raised
                     ELSE /\ pc' = "except"
                          /\ raised' = raised \cup {"Command.set_detector"}
     ELSE /\ pc' = "cmd_run"
          /\ UNCHANGED <<calls, raised>>
  /\ UNCHANGED <<snapshot_file, mainVars, settings, handles, ret, logged>>

\* cmd.run(); log "Run completed normally."; return 0
Loop_CmdRun ==
  /\ pc = "cmd_run"
  /\ calls' = Append(calls, "Command.run")
  /\ \E ok \in BOOLEAN :
       IF ok THEN /\ logged' = Append(logged, "Run completed normally")
                  /\ ret' = <<0>>
                  /\ pc' = "finally"
                  /\ raised' = raised
             ELSE /\ logged' = logged
                  /\ ret' = ret
                  /\ pc' = "except"
                  /\ raised' = raised \cup {"Command.run"}
  /\ UNCHANGED <<snapshot_file, mainVars, settings, handles>>

\* Variant: the except clause does not match, the exception leaves run().
ExceptHandler_Escapes ==
  /\ pc = "except"
  /\ pc' = "run_raised"
  /\ UNCHANGED <<snapshot_file, mainVars, settings, handles, ret, calls, logged, raised>>

\* Variant: the handler returns 1 without a finally clause behind it.
ExceptHandler_SkipsFinally ==
  /\ pc = "except"
  /\ logged' = Append(logged, "Fatal error in runner")
  /\ ret' = <<1>>
  /\ pc' = "done"
  /\ UNCHANGED <<snapshot_file, mainVars, settings, handles, calls, raised>>

\* except Exception as e: log.exception(...); return 1
ExceptHandler ==
  /\ pc = "except"
  /\ logged' = Append(logged, "Fatal error in runner")
  /\ ret' = <<1>>
  /\ pc' = "finally"
  /\ UNCHANGED <<snapshot_file, mainVars, settings, handles, calls, raised>>

\* finally: log.info("Shutting down subsystems...")
Finally_Begin ==
  /\ pc = "finally"
  /\ logged' = Append(logged, "Shutting down subsystems")
  /\ pc' = "td_stop"
  /\ UNCHANGED <<snapshot_file, mainVars, settings, handles, ret, calls, raised>>

\* try: if detector is not None: detector.stop()   (first statement of the
\* vision try block; an exception leaves the block for its except clause)
Shutdown_DetectorStop ==
  /\ pc = "td_stop"
  /\ IF detector # None
     THEN /\ calls' = Append(calls, "detector.stop")
          /\ \E ok \in BOOLEAN :
               IF ok THEN /\ pc' = "td_join"
                          /\ logged' = logged
                          /\ raised' = raised
                     ELSE /\ pc' = "td_swarm"
                          /\ logged' = Append(logged,
                                              "Error during vision shutdown")
                          /\ raised' = raised \cup {"detector.stop"}
     ELSE /\ pc' = "td_join"
          /\ UNCHANGED <<calls, logged, raised>>
  /\ UNCHANGED <<snapshot_file, mainVars, settings, handles, ret>>

\* Variant: the join is attempted on any thread object, alive or not.
Shutdown_ThreadJoin_NoAliveCheck ==
  /\ pc = "td_join"
  /\ pc' = "td_swarm"
  /\ IF detector_thread # None
     THEN /\ calls' = Append(calls, "detector_thread.join")
          /\ \E outcome \in {"returned", "raise"} :
               /\ logged' = IF outcome = "raise"
                            THEN Append(logged, "Error during vision shutdown")
                            ELSE logged
               /\ raised' = IF outcome = "raise"
                            THEN raised \cup {"detector_thread.join"}
                            ELSE raised
     ELSE UNCHANGED <<calls, logged, raised>>
  /\ UNCHANGED <<snapshot_file, mainVars, settings, handles, ret>>

\* Variant: join() without a timeout returns only once the thread has ended.
Shutdown_ThreadJoin_NoTimeout ==
  /\ pc = "td_join"
  /\ detector_thread # "alive"
  /\ pc' = "td_swarm"
  /\ UNCHANGED <<snapshot_file, mainVars, settings, handles, ret, calls,
                 logged, raised>>

\* if detector_thread is not None and detector_thread.is_alive():
\*   detector_thread.join(timeout=2.0)      (second statement of the block)
\* The join returns when the thread has ended or when the timeout expires.
Shutdown_ThreadJoin ==
  /\ pc = "td_join"
  /\ pc' = "td_swarm"
  /\ IF detector_thread # None /\ detector_thread = "alive"
     THEN /\ calls' = Append(calls, "detector_thread.join")
          /\ \E outcome \in {"ended", "timeout", "raise"} :
               /\ detector_thread' =
                    IF outcome = "ended" THEN "dead" ELSE detector_thread
               /\ logged' = IF outcome = "raise"
                            THEN Append(logged, "Error during vision shutdown")
                            ELSE logged
               /\ raised' = IF outcome = "raise"
                            THEN raised \cup {"detector_thread.join"}
                            ELSE raised
     ELSE UNCHANGED <<calls, detector_thread, logged, raised>>
  /\ UNCHANGED <<snapshot_file, mainVars, settings, drone, drone_logs, swarm, detector, cmd,
                 ret>>

\* Variant: swarm.close shares its try block with drone_logs.close, so a
\* raising swarm.close skips the log reader.
Shutdown_Swarm_SharedTry ==
  /\ pc = "td_swarm"
  /\ IF swarm # None
     THEN /\ calls' = Append(calls, "swarm.close")
          /\ \E ok \in BOOLEAN :
               IF ok THEN /\ pc' = "td_logs"
                          /\ UNCHANGED <<logged, raised>>
                     ELSE /\ pc' = "td_drone"
                          /\ logged' = Append(logged,
                                              "Error during swarm shutdown")
                          /\ raised' = raised \cup {"swarm.close"}
     ELSE /\ pc' = "td_logs"
          /\ UNCHANGED <<calls, logged, raised>>
  /\ UNCHANGED <<snapshot_file, mainVars, settings, handles, ret>>

Shutdown_Swarm ==
  /\ pc = "td_swarm"
  /\ pc' = "td_logs"
  /\ IF swarm # None
     THEN /\ calls' = Append(calls, "swarm.close")
          /\ \E ok \in BOOLEAN :
               IF ok THEN UNCHANGED <<logged, raised>>
                     ELSE /\ logged' = Append(logged,
                                              "Error during swarm shutdown")
                          /\ raised' = raised \cup {"swarm.close"}
     ELSE UNCHANGED <<calls, logged, raised>>
  /\ UNCHANGED <<snapshot_file, mainVars, settings, handles, ret>>

\* Variant: a failing drone_logs.close is tried a second time.
Shutdown_Logs_RetryOnFailure ==
  /\ pc = "td_logs"
  /\ pc' = "td_drone"
  /\ IF drone_logs # None
     THEN \E ok \in BOOLEAN :
            IF ok THEN /\ calls' = Append(calls, "drone_logs.close")
                       /\ UNCHANGED <<logged, raised>>
                  ELSE /\ calls' = calls \o <<"drone_logs.close",
                                              "drone_logs.close">>
                       /\ logged' = Append(logged, "Error during log shutdown")
                       /\ raised' = raised \cup {"drone_logs.close"}
     ELSE UNCHANGED <<calls, logged, raised>>
  /\ UNCHANGED <<snapshot_file, mainVars, settings, handles, ret>>

\* Variant: the connection is closed before the log reader that uses it.
Shutdown_Logs_ConnectionFirst ==
  /\ pc = "td_logs"
  /\ pc' = "done"
  /\ calls' = calls \o IfThen(drone # None, <<"drone.close">>)
                    \o IfThen(drone_logs # None, <<"drone_logs.close">>)
  /\ UNCHANGED <<snapshot_file, mainVars, settings, handles, ret, logged, raised>>

Shutdown_Logs ==
  /\ pc = "td_logs"
  /\ pc' = "td_drone"
  /\ IF drone_logs # None
     THEN /\ calls' = Append(calls, "drone_logs.close")
          /\ \E ok \in BOOLEAN :
               IF ok THEN UNCHANGED <<logged, raised>>
                     ELSE /\ logged' = Append(logged,
                                              "Error during log shutdown")
                          /\ raised' = raised \cup {"drone_logs.close"}
     ELSE UNCHANGED <<calls, logged, raised>>
  /\ UNCHANGED <<snapshot_file, mainVars, settings, handles, ret>>

\* Variant: a failing drone.close turns the return value into 1.
Shutdown_Drone_Escalates ==
  /\ pc = "td_drone"
  /\ pc' = "done"
  /\ IF drone # None
     THEN /\ calls' = Append(calls, "drone.close")
          /\ \E ok \in BOOLEAN :
               IF ok THEN UNCHANGED <<logged, raised, ret>>
                     ELSE /\ logged' = Append(logged,
                                              "Error during drone shutdown")
                          /\ raised' = raised \cup {"drone.close"}
                          /\ ret' = <<1>>
     ELSE UNCHANGED <<calls, logged, raised, ret>>
  /\ UNCHANGED <<snapshot_file, mainVars, settings, handles>>

\* The last try block of the finally clause; after it run() returns the value
\* of the return statement that was executed before the finally clause.
Shutdown_Drone ==
  /\ pc = "td_drone"
  /\ pc' = "done"
  /\ IF drone # None
     THEN /\ calls' = Append(calls, "drone.close")
          /\ \E ok \in BOOLEAN :
               IF ok THEN UNCHANGED <<logged, raised>>
                     ELSE /\ logged' = Append(logged,
                                              "Error during drone shutdown")
                          /\ raised' = raised \cup {"drone.close"}
     ELSE UNCHANGED <<calls, logged, raised>>
  /\ UNCHANGED <<snapshot_file, mainVars, settings, handles, ret>>

\* The detector thread (Thread(target=detector.run, daemon=True)) ends on its
\* own: detector.run returned or raised.
DetectorThread_Exit ==
  /\ detector_thread = "alive"
  /\ detector_thread' = "dead"
  /\ UNCHANGED <<snapshot_file, mainVars, settings, pc, drone, drone_logs, swarm, detector,
                 cmd, ret, calls, logged, raised>>

Next ==
  \/ Main_ParseArgs
  \/ Main_LoadSettings
  \/ Resolver_Call
  \/ Run_SetupLogging
  \/ Run_WriteSnapshot
  \/ Run_DryRunCheck
  \/ Init_DroneConnection
  \/ Init_DroneLogs
  \/ Init_SwarmCommand
  \/ Init_DetectorRT
  \/ Init_ThreadStart
  \/ Init_Command
  \/ Init_SetDetector
  \/ Loop_CmdRun
  \/ ExceptHandler
  \/ Finally_Begin
  \/ Shutdown_DetectorStop
  \/ Shutdown_ThreadJoin
  \/ Shutdown_Swarm
  \/ Shutdown_Logs
  \/ Shutdown_Drone
  \/ DetectorThread_Exit

Spec == Init /\ [][Next]_vars

\* The steps of the primary thread inside run().
PrimaryStep ==
  \/ Run_SetupLogging
  \/ Run_WriteSnapshot
  \/ Run_DryRunCheck
  \/ Init_DroneConnection
  \/ Init_DroneLogs
  \/ Init_SwarmCommand
  \/ Init_DetectorRT
  \/ Init_ThreadStart
  \/ Init_Command
  \/ Init_SetDetector
  \/ Loop_CmdRun
  \/ ExceptHandler
  \/ Finally_Begin
  \/ Shutdown_DetectorStop
  \/ Shutdown_ThreadJoin
  \/ Shutdown_Swarm
  \/ Shutdown_Logs
  \/ Shutdown_Drone

\* run(settings) called directly.
InitRun == Init /\ entry = "run"

NextRun == PrimaryStep \/ DetectorThread_Exit

\* The primary thread keeps running and every call it makes returns or
\* raises; nothing is assumed about the detector thread, which may run for
\* ever.
SpecTermination == InitRun /\ [][NextRun]_vars /\ WF_vars(PrimaryStep)

TypeOK ==
  /\ entry \in {"main", "run", "resolver"}
  /\ ret \in {<<>>, <<0>>, <<1>>}
  /\ detector_thread \in {None, "new", "alive", "dead"}

----------------------------------------------------------------------------
\* Vocabulary of the properties.

InitOrder == <<"DroneConnection", "DroneLogs", "SwarmCommand", "DetectorRT",
               "Thread.start", "Command", "Command.set_detector",
               "Command.run">>

TeardownOrder == <<"detector.stop", "detector_thread.join", "swarm.close",
                   "drone_logs.close", "drone.close">>

ConstructionOps == {"DroneConnection", "DroneLogs", "SwarmCommand",
                    "DetectorRT", "Thread.start", "Command"}

InitAndLoopOps == Range(InitOrder)
ShutdownOps == Range(TeardownOrder)
HandleShutdownOps == ShutdownOps \ {"detector_thread.join"}

IsInitOp(op) == op \in InitAndLoopOps
IsShutdownOp(op) == op \in ShutdownOps
IsHandleShutdownOp(op) == op \in HandleShutdownOps
IsTeardownStart(m) == m = "Shutting down subsystems"

Called(op) == \E i \in 1..Len(calls) : calls[i] = op
Completed(op) == Called(op) /\ op \notin raised

\* Position of op in the sequence s, 0 when it does not occur.
Pos(s, op) == IF \E i \in 1..Len(s) : s[i] = op
              THEN CHOOSE i \in 1..Len(s) : s[i] = op
              ELSE 0

\* s lists members of order, each at most once, in the order of order.
InOrderOf(s, order) ==
  \A i \in 1..(Len(s) - 1) : Pos(order, s[i]) < Pos(order, s[i + 1])

InitTrace == SelectSeq(calls, IsInitOp)
ShutdownTrace == SelectSeq(calls, IsShutdownOp)
TeardownCount == Len(SelectSeq(logged, IsTeardownStart))

\* run() is over: it returned, or an exception left it.
RunEnded == pc \in {"done", "run_raised"}

----------------------------------------------------------------------------
\* C1: when teardown is over, every shutdown step whose handle is present
\* has been attempted, whichever other steps raised: stop for a present
\* detector, join for an execution unit that is still alive, and the three
\* close operations; in particular a raising stop does not prevent the join.
C1_TeardownStepsIsolated ==
  RunEnded =>
    /\ detector # None => Called("detector.stop")
    /\ detector_thread = "alive" => Called("detector_thread.join")
    /\ swarm # None => Called("swarm.close")
    /\ drone_logs # None => Called("drone_logs.close")
    /\ drone # None => Called("drone.close")

\* C2: when swarm.close raised, the failure is logged and the log reader's
\* close and then the connection's close are attempted after it, for each of
\* the two handles that is present.
C2_SwarmCloseFailureIsolated ==
  (RunEnded /\ "swarm.close" \in raised) =>
    /\ "Error during swarm shutdown" \in Range(logged)
    /\ drone_logs # None =>
         Pos(calls, "drone_logs.close") > Pos(calls, "swarm.close")
    /\ drone # None =>
         /\ Pos(calls, "drone.close") > Pos(calls, "swarm.close")
         /\ Pos(calls, "drone.close") > Pos(calls, "drone_logs.close")

C2_Witness ==
  /\ pc = "done"
  /\ "swarm.close" \in raised
  /\ Called("drone_logs.close")
  /\ Called("drone.close")

\* The handle shutdown operations owed to the constructors that completed, in
\* teardown order.
ExpectedHandleShutdowns ==
  IfThen(Completed("DetectorRT"), <<"detector.stop">>)
  \o IfThen(Completed("SwarmCommand"), <<"swarm.close">>)
  \o IfThen(Completed("DroneLogs"), <<"drone_logs.close">>)
  \o IfThen(Completed("DroneConnection"), <<"drone.close">>)

TeardownPcs == {"td_stop", "td_join", "td_swarm", "td_logs", "td_drone"}

\* C4: the value run() returns is 0 exactly when the run was a dry run or the
\* interactive loop (hence every initialization step before it) completed,
\* and 1 exactly when an initialization step or the loop raised; the value is
\* fixed when teardown starts and no teardown failure changes it.
C4_ReturnCode ==
  (pc \in TeardownPcs \cup {"done"}) =>
    /\ ret \in {<<0>>, <<1>>}
    /\ ret = <<0>> <=> (settings.dry_run \/ Completed("Command.run"))
    /\ ret = <<1>> <=> (raised \cap InitAndLoopOps # {})

\* A run whose loop returned and whose teardown raised still returns 0.
C4_Witness ==
  /\ pc = "done"
  /\ ret = <<0>>
  /\ raised \cap ShutdownOps # {}

\* C5 as stated: no exception leaves run(), the snapshot write included.
C5_NoExceptionEscapesRun == pc # "run_raised"

\* C5 (amended): an exception raised by an initialization step or by the
\* interactive loop never leaves run(): such a run ends by returning 1.  The
\* only exception that leaves run() is one raised by the snapshot write, and
\* then no return statement ran and no subsystem was touched.
C5_OnlySnapshotFailureEscapes ==
  /\ pc = "run_raised" =>
       /\ raised = {"write_snapshot"}
       /\ calls = <<"write_snapshot">>
       /\ ret = <<>>
  /\ (RunEnded /\ raised \cap InitAndLoopOps # {}) =>
       /\ pc = "done"
       /\ ret = <<1>>
  /\ (RunEnded /\ "write_snapshot" \notin raised) => pc = "done"

C5_Witness ==
  /\ pc = "done"
  /\ ret = <<1>>
  /\ "Command.run" \in raised

\* C6: with the dry-run flag set no subsystem constructor and no teardown
\* operation is invoked (the snapshot write is the only call), no handle is
\* ever present, teardown is never entered, and run() returns 0: it returns
\* unless the snapshot write raised, and the value it returns is 0.
C6_DryRun ==
  settings.dry_run =>
    /\ Range(calls) \subseteq {"write_snapshot"}
    /\ TeardownCount = 0
    /\ drone = None /\ drone_logs = None /\ swarm = None
    /\ detector = None /\ detector_thread = None /\ cmd = None
    /\ pc = "done" => ret = <<0>>
    /\ (RunEnded /\ Completed("write_snapshot")) => pc = "done"

C6_Witness ==
  /\ settings.dry_run
  /\ pc = "done"
  /\ ret = <<0>>
  /\ calls = <<"write_snapshot">>

\* C7: a non-dry run that got past the snapshot write enters teardown exactly
\* once before it ends, whether initialization and the loop succeeded or
\* raised; teardown is never entered twice, and never in a dry run or before
\* initialization began.
C7_TeardownExactlyOnce ==
  /\ TeardownCount <= 1
  /\ (RunEnded /\ ~settings.dry_run /\ Completed("write_snapshot")) =>
       (pc = "done" /\ TeardownCount = 1)
  /\ TeardownCount = 1 => Called("DroneConnection")

\* Teardown ran once after initialization stopped part-way.
C7_Witness ==
  /\ pc = "done"
  /\ TeardownCount = 1
  /\ "SwarmCommand" \in raised

C9_InitOrder ==
  /\ InOrderOf(InitTrace, InitOrder)
  /\ Called("DroneLogs") => Completed("DroneConnection")
  /\ Called("SwarmCommand") =>
       (settings.mode = "swarm" /\ Completed("DroneLogs"))
  /\ Called("DetectorRT") => settings.vision.enabled
  /\ Called("Thread.start") => Completed("DetectorRT")
  /\ Called("Command") =>
       /\ Completed("DroneLogs")
       /\ settings.mode = "swarm" => Completed("SwarmCommand")
       /\ settings.vision.enabled => Completed("Thread.start")
  /\ Called("Command.set_detector") =>
       (Completed("Command") /\ Completed("Thread.start"))
  /\ Called("Command.run") =>
       /\ Completed("Command")
       /\ settings.vision.enabled => Completed("Command.set_detector")

C9_Witness ==
  /\ InitTrace = InitOrder
  /\ Completed("Command.run")

\* The merged toggles of a command line: flag or trailing token.
MergedVision(a) ==
  a.vision \/ \E e \in Range(Namespace(a).extras) : Lower(e) = "vision"
MergedControl(a) ==
  a.control \/ \E e \in Range(Namespace(a).extras) : Lower(e) = "control"

\* C10: through main(), a command line whose merged flags and tokens enable
\* control without vision never gets past parse_args (no Settings is
\* resolved, run() does nothing), and every Settings that main() hands to the
\* orchestrator has vision enabled whenever control is enabled.
C10_ControlRequiresVision ==
  entry = "main" =>
    /\ settings.vision.control_enabled => settings.vision.enabled
    /\ (ArgparseAccepts(argv) /\ MergedControl(argv) /\ ~MergedVision(argv))
         => /\ pc \in {"parse_args", "parse_error"}
            /\ args = NoArgs
            /\ settings = NoSettings
            /\ calls = <<>>

C10_Witness ==
  /\ entry = "main"
  /\ pc = "parse_error"
  /\ ArgparseAccepts(argv)
  /\ MergedControl(argv)
  /\ ~MergedVision(argv)

\* The connection target of a Settings for its mode is present and
\* non-empty: a URI for udp and radio, a non-empty channel list for swarm.
HasConnectionTarget(st) ==
  IF st.mode = "swarm"
  THEN st.swarm.channels.some /\ st.swarm.channels.val # <<>>
  ELSE st.uri \notin {None, ""}

\* C11: every Settings returned by load_settings_from_env (called by main or
\* on its own) with dry_run = false carries a non-empty connection target for
\* its mode; the resolver raises instead when the target is missing.
C11_TargetResolved ==
  (entry \in {"main", "resolver"} /\ settings # NoSettings
     /\ ~settings.dry_run) => HasConnectionTarget(settings)

\* Positions of main and of the resolver, before run() is entered.
BeforeRunPcs == {"parse_args", "parse_error", "load_settings", "config_error",
                 "resolve", "resolved"}

\* C12: the snapshot write is the first operation of every run, dry or not:
\* nothing has been invoked while logging is being set up, the write is
\* attempted before run() goes any further, every constructor call comes
\* after it, and when the write raised nothing else is ever invoked.
C12_SnapshotFirst ==
  /\ pc = "setup_logging" => calls = <<>>
  /\ calls # <<>> => Head(calls) = "write_snapshot"
  /\ pc \notin BeforeRunPcs \cup {"setup_logging", "snapshot"} =>
       Called("write_snapshot")
  /\ "write_snapshot" \in raised =>
       (calls = <<"write_snapshot">> /\ pc = "run_raised")

\* A dry run that wrote its snapshot.
C12_Witness ==
  /\ settings.dry_run
  /\ pc = "done"
  /\ Completed("write_snapshot")

\* What the parsed snapshot must hold for the record st: the fields of the
\* Settings declarations one by one, every path as its text.
ExpectedSnapshot(st) ==
  PyDict(
    [mode |-> PyStr(st.mode),
     dry_run |-> PyBool(st.dry_run),
     run |-> PyDict([project_root |-> PyStr(st.run.project_root),
                     logs_dir |-> PyStr(st.run.logs_dir),
                     data_dir |-> PyStr(st.run.data_dir),
                     cache_dir |-> PyStr(st.run.cache_dir),
                     log_level |-> PyStr(st.run.log_level)]),
     radio |-> PyDict(
       [uri_by_channel |->
          PyDict(("7" :> PyStr(st.radio.uri_by_channel["7"]))
                 @@ ("8" :> PyStr(st.radio.uri_by_channel["8"]))
                 @@ ("9" :> PyStr(st.radio.uri_by_channel["9"])))]),
     swarm |-> PyDict(
       [enabled |-> PyBool(st.swarm.enabled),
        channels |-> IF st.swarm.channels.some
                     THEN PyList([i \in 1..Len(st.swarm.channels.val) |->
                                    PyStr(st.swarm.channels.val[i])])
                     ELSE PyNone]),
     vision |-> PyDict(
       [enabled |-> PyBool(st.vision.enabled),
        control_enabled |-> PyBool(st.vision.control_enabled),
        camera_index |-> IF st.vision.camera_index.some
                         THEN PyInt(st.vision.camera_index.val) ELSE PyNone,
        camera_url |-> IF st.vision.camera_url = None THEN PyNone
                       ELSE PyStr(st.vision.camera_url),
        aruco_dict_name |-> PyStr(st.vision.aruco_dict_name),
        marker_size_m |-> PyFloat(st.vision.marker_size_m),
        show_window |-> PyBool(st.vision.show_window)]),
     features |-> PyDict([waypoints |-> PyBool(st.features.waypoints)]),
     uri |-> IF st.uri = None THEN PyNone ELSE PyStr(st.uri)])

\* C13: the Settings given to run() can always be serialized, and once the
\* snapshot write has returned, settings.json parses back to a structure
\* holding every field of the Settings, nested records included, with equal
\* values and every path as its text, whatever the file held before.
C13_SnapshotRoundTrip ==
  /\ pc \in {"setup_logging", "snapshot"} =>
       Serializable(safe_asdict(SettingsObject(settings)))
  /\ Completed("write_snapshot") =>
       /\ snapshot_file \notin {NoFile, EmptyFile, StaleSnapshot}
       /\ json_loads(snapshot_file) = ExpectedSnapshot(settings)

\* A snapshot of a swarm configuration with a camera index was written.
C13_Witness ==
  /\ Completed("write_snapshot")
  /\ settings.mode = "swarm"
  /\ settings.vision.camera_index.some
  /\ json_loads(snapshot_file).items["swarm"].items["channels"]
       = PyList(<<PyStr("7")>>)

\* C14: once teardown has begun run() returns, also when the detector's
\* execution unit never ends (the join gives up after its timeout), and the
\* primary thread never ends the unit itself: the unit goes from alive to dead
\* only on its own, possibly while the primary thread waits in the join.
C14_TeardownTerminates ==
  /\ (pc = "finally") ~> (pc = "done")
  /\ [][(detector_thread = "alive" /\ detector_thread' = "dead")
          => (pc' = pc \/ pc = "td_join")]_vars

\* run() returned after a join that timed out: the unit is still active.
C14_Witness ==
  /\ pc = "done"
  /\ Completed("detector_thread.join")
  /\ detector_thread = "alive"

\* C15: when the join returned on its timeout with the execution unit still
\* alive, a record has been logged after the start of teardown by the time
\* teardown reaches the swarm controller.
C15_JoinTimeoutWarning ==
  (pc = "td_swarm" /\ Completed("detector_thread.join")
     /\ detector_thread = "alive") =>
    Len(logged) > Pos(logged, "Shutting down subsystems")

\* Number of times op occurs in s.
CountIn(s, op) == Cardinality({i \in 1..Len(s) : s[i] = op})

\* C16: at most one execution unit is ever started, and the handles respect
\* the configuration gates: a thread object only with a detector handle, a
\* detector handle only with vision enabled, a swarm handle only in swarm
\* mode; with vision disabled no detector is built and no unit is started.
C16_HandleGates ==
  /\ CountIn(calls, "Thread.start") <= 1
  /\ detector_thread # None => detector # None
  /\ detector # None => settings.vision.enabled
  /\ swarm # None => settings.mode = "swarm"
  /\ ~settings.vision.enabled =>
       (~Called("DetectorRT") /\ ~Called("Thread.start"))
  /\ settings.mode # "swarm" => ~Called("SwarmCommand")

\* The loop is about to run with a swarm controller and a live detector unit.
C16_Witness ==
  /\ pc = "cmd_run"
  /\ swarm # None
  /\ detector_thread = "alive"

\* The constructor whose handle a shutdown operation acts on.
ConstructorOf(op) ==
  IF op = "detector.stop" THEN "DetectorRT"
  ELSE IF op = "swarm.close" THEN "SwarmCommand"
  ELSE IF op = "drone_logs.close" THEN "DroneLogs"
  ELSE "DroneConnection"

\* C17: each handle's shutdown operation (detector stop, swarm close, log
\* reader close, connection close) is invoked at most once in a run, also
\* after earlier teardown steps raised, and only on a handle whose
\* constructor returned.
C17_ShutdownAtMostOnce ==
  \A op \in HandleShutdownOps :
    /\ CountIn(calls, op) <= 1
    /\ Called(op) => Completed(ConstructorOf(op))

\* All four operations invoked once although stop and swarm close raised.
C17_Witness ==
  /\ pc = "done"
  /\ {"detector.stop", "swarm.close"} \subseteq raised
  /\ \A op \in HandleShutdownOps : CountIn(calls, op) = 1

\* C18: the join is attempted only on an execution unit that is alive at that
\* moment, never on one that was created but not started or that has ended;
\* the stop signal has been sent to every present detector once teardown is
\* past its first statement.
C18_JoinOnlyIfAlive ==
  /\ [](/\ Called("detector_thread.join") => Completed("Thread.start")
        /\ detector_thread = "new" => ~Called("detector_thread.join")
        /\ (pc \in (TeardownPcs \ {"td_stop"}) \cup {"done"}
              /\ detector # None) => Called("detector.stop"))
  /\ [][(~Called("detector_thread.join") /\ Called("detector_thread.join")')
          => detector_thread = "alive"]_vars

\* Thread.start raised: stop was sent, no join was attempted.
C18_Witness ==
  /\ pc = "done"
  /\ detector_thread = "new"
  /\ Called("detector.stop")
  /\ ~Called("detector_thread.join")

MergedWaypoints(a) ==
  a.waypoints
  \/ \E e \in Range(Namespace(a).extras) : Lower(e) \in {"waypoint", "waypoints"}

\* C19: parse_args merges each toggle as flag OR token and rejects a command
\* line exactly when merged control is set without merged vision; every
\* other command line is accepted with the merged toggles.
C19_FlagsAndTokensMerged ==
  (entry = "main" /\ ArgparseAccepts(argv) /\ pc # "parse_args") =>
    /\ pc = "parse_error" <=> (MergedControl(argv) /\ ~MergedVision(argv))
    /\ pc # "parse_error" =>
         /\ args.vision = MergedVision(argv)
         /\ args.control = MergedControl(argv)
         /\ args.waypoints = MergedWaypoints(argv)

====
